---------------------------- MODULE Spec2Model ----------------------------
(***************************************************************************)
(* Model of the /file_parse request handler of mineru/cli/fast_api.py.     *)
(*                                                                         *)
(* Strings whose characters the handler inspects (file names, backend      *)
(* identifiers) are sequences of one-character strings.  A path is a       *)
(* sequence of such components.  The file system is a set of directories   *)
(* and a function from file paths to contents.  One atomic action is one   *)
(* stretch of parse_pdf between two await points.                          *)
(***************************************************************************)
EXTENDS Integers, Sequences, FiniteSets, TLC

VARIABLES
    config,     \* app.state.config, stored by main before the server starts
    uuidNext,   \* number of uuid.uuid4() values drawn so far
    fsDirs,     \* directories present on disk (resolved paths)
    fsFiles,    \* files present on disk: resolved path -> content
    req         \* per request: inputs, locals of parse_pdf, response, history

vars == <<config, uuidNext, fsDirs, fsFiles, req>>

(*************************** bounds of the model ***************************)
MaxFiles == 2
MaxLangs == 2
MaxReqs == 2

(******************************* characters ********************************)
UpperAlphabet ==
    <<"A","B","C","D","E","F","G","H","I","J","K","L","M",
      "N","O","P","Q","R","S","T","U","V","W","X","Y","Z">>

LowerAlphabet ==
    <<"a","b","c","d","e","f","g","h","i","j","k","l","m",
      "n","o","p","q","r","s","t","u","v","w","x","y","z">>

LowerChar(c) ==
    IF \E i \in 1..Len(UpperAlphabet) : UpperAlphabet[i] = c
    THEN LowerAlphabet[CHOOSE i \in 1..Len(UpperAlphabet) : UpperAlphabet[i] = c]
    ELSE c

\* str.lower()
Lower(s) == [i \in 1..Len(s) |-> LowerChar(s[i])]

\* str.rfind(c): the last index of c, 0 when absent (Python's -1, 1-based here)
RFind(s, c) ==
    IF \E i \in 1..Len(s) : s[i] = c
    THEN CHOOSE i \in 1..Len(s) : s[i] = c /\ \A j \in (i+1)..Len(s) : s[j] # c
    ELSE 0

\* str.startswith(prefix)
StartsWith(s, prefix) ==
    /\ Len(prefix) <= Len(s)
    /\ SubSeq(s, 1, Len(prefix)) = prefix

Digits == <<"0","1","2","3","4","5","6","7","8","9">>

RECURSIVE Decimal(_)
Decimal(n) ==
    IF n < 10 THEN <<Digits[n + 1]>>
    ELSE Decimal(n \div 10) \o <<Digits[(n % 10) + 1]>>

\* str(uuid.uuid4()): the n-th value drawn; distinct draws give distinct text
Uuid4(n) == <<"u">> \o Decimal(n)

(******************************** pathlib **********************************)
\* PurePath.name: the final component of the file name
PathName(filename) == SubSeq(filename, RFind(filename, "/") + 1, Len(filename))

\* PurePath.suffix: from the last dot, unless it is the first or last character
PathSuffix(filename) ==
    LET name == PathName(filename)
        i == RFind(name, ".")
    IN IF 1 < i /\ i < Len(name) THEN SubSeq(name, i, Len(name)) ELSE <<>>

\* PurePath.stem: the name without its suffix
PathStem(filename) ==
    LET name == PathName(filename)
        i == RFind(name, ".")
    IN IF 1 < i /\ i < Len(name) THEN SubSeq(name, 1, i - 1) ELSE name

(******************************* file system *******************************)
DotComp == <<".">>
DotDotComp == <<".", ".">>

\* The path the kernel reaches for a component list: "." stays, ".." goes up.
\* Every ".." the handler builds follows a directory that exists.
RECURSIVE Resolve(_)
Resolve(path) ==
    IF path = <<>> THEN <<>>
    ELSE LET front == Resolve(SubSeq(path, 1, Len(path) - 1))
             last == path[Len(path)]
         IN IF last = DotComp THEN front
            ELSE IF last = DotDotComp
                 THEN (IF front = <<>> THEN <<>> ELSE SubSeq(front, 1, Len(front) - 1))
                 ELSE Append(front, last)

\* os.path.join(path, comp)
Join(path, comp) == Append(path, comp)

Prefixes(path) == {SubSeq(path, 1, k) : k \in 1..Len(path)}

\* os.makedirs(path, exist_ok=True): the directory and its missing parents
MakeDirs(dirs, path) == dirs \cup Prefixes(Resolve(path))

\* os.path.exists(path)
PathExists(dirs, files, path) ==
    Resolve(path) \in dirs \/ Resolve(path) \in DOMAIN files

\* open(path, "wb").write(content)
WriteFile(files, path, content) ==
    [p \in (DOMAIN files) \cup {Resolve(path)} |->
        IF p = Resolve(path) THEN content ELSE files[p]]

\* os.remove(path)
RemoveFile(files, path) ==
    [p \in (DOMAIN files) \ {Resolve(path)} |-> files[p]]

NoFiles == [p \in {} |-> <<>>]

\* whether path lies in directory dir (dir itself included)
Inside(dir, path) ==
    /\ Len(Resolve(dir)) <= Len(Resolve(path))
    /\ SubSeq(Resolve(path), 1, Len(Resolve(dir))) = Resolve(dir)

(***************************** program strings *****************************)
\* mineru.cli.common: the accepted document and image extensions
pdf_suffixes == {<<".","p","d","f">>}

image_suffixes == {<<".","p","n","g">>, <<".","j","p","e","g">>, <<".","j","p","g">>}

Pipeline == <<"p","i","p","e","l","i","n","e">>
Vlm == <<"v","l","m">>
ImagesDir == <<"i","m","a","g","e","s">>

MdSuffix == <<".","m","d">>
MiddleJsonSuffix == <<"_","m","i","d","d","l","e",".","j","s","o","n">>
ModelJsonSuffix == <<"_","m","o","d","e","l",".","j","s","o","n">>
ModelOutputTxtSuffix == <<"_","m","o","d","e","l","_","o","u","t","p","u","t",".","t","x","t">>
ContentListSuffix == <<"_","c","o","n","t","e","n","t","_","l","i","s","t",".","j","s","o","n">>
JpgSuffix == <<".","j","p","g">>

\* the return_X form fields and the result keys they select
ReturnFlags ==
    {"return_md", "return_middle_json", "return_model_output",
     "return_content_list", "return_images"}

\* the text of the exceptions the handler catches
DecodeErrorText == <<"d","e","c","o","d","e">>
EngineErrorText == <<"e","n","g","i","n","e">>
TypeErrorText == <<"k","w","a","r","g">>

\* version.__version__
Version == "2.0.0"

\* the content of a file: uploaded bytes or engine output.  NoneValue is
\* Python's None, distinct from the content of every file.
NoneValue == [data |-> "None", corrupt |-> FALSE, origin |-> <<>>]

Bytes(data, corrupt) == [data |-> data, corrupt |-> corrupt, origin |-> <<>>]

EmptyDict == [k \in {} |-> NoneValue]

(**************************** external collaborators ***********************)
\* read_fn(path): raises on bytes it cannot decode, else the canonical payload
ReadFnRaises(files, path) == files[Resolve(path)].corrupt

ReadFn(files, path) ==
    [data |-> files[Resolve(path)].data, corrupt |-> FALSE, origin |-> <<<<"p","d","f">>>>]

(****************************** handler pieces *****************************)
\* IsSupported gone wrong: any file name that bears an extension is let through
IsSupportedAnyExtension(filename) == PathSuffix(filename) # <<>>

\* line 120: the extension test, case-insensitive
IsSupported(filename) ==
    Lower(PathSuffix(filename)) \in (pdf_suffixes \cup image_suffixes)

\* lines 121-124
UnsupportedResponse(filename) ==
    [status |-> 400,
     content |-> [error |-> [msg |-> "Unsupported file type: ",
                             arg |-> PathSuffix(filename)]]]

\* lines 138-141
DecodeFailedResponse(e) ==
    [status |-> 400,
     content |-> [error |-> [msg |-> "Failed to load file: ", arg |-> e]]]

\* lines 210-220: the request id is a new uuid4, the n-th drawn
ServerErrorResponse(e, n) ==
    [status |-> 500,
     content |-> [error |-> [msg |-> "Failed to process file: ", arg |-> e],
                  request_id |-> Uuid4(n)]]

\* lines 202-209
SuccessResponse(backend, result_dict) ==
    [status |-> 200,
     content |-> [backend |-> backend, version |-> Version,
                  results |-> result_dict]]

NoResponse == [status |-> 0, content |-> EmptyDict]

\* line 109
UniqueDir(output_dir, n) == Join(output_dir, Uuid4(n))

\* line 128
TempPath(unique_dir, filename) == Join(unique_dir, PathName(filename))

\* FilesAfterDecodeOk gone wrong: the os.remove of line 136 is forgotten
FilesAfterDecodeKept(files, temp_path) == files

\* line 136: after a successful read_fn the temporary file is removed
FilesAfterDecodeOk(files, temp_path) == RemoveFile(files, temp_path)

\* lines 137-141: the except branch returns without touching the file
FilesAfterDecodeError(files, temp_path) == files

\* ReconcileLang gone wrong: a list of the wrong length is cut or padded with
\* the default instead of being replaced by its first entry
ReconcileLangPadded(lang_list, n) ==
    [k \in 1..n |-> IF k <= Len(lang_list) THEN lang_list[k] ELSE "ch"]

\* lines 143-146
ReconcileLang(lang_list, n) ==
    IF Len(lang_list) # n
    THEN [k \in 1..n |-> IF lang_list # <<>> THEN lang_list[1] ELSE "ch"]
    ELSE lang_list

\* lines 149-167: the keyword arguments parse_pdf writes out for aio_do_parse
HandlerKwargs(rq, actual_lang_list) ==
    [output_dir |-> rq.unique_dir,
     pdf_file_names |-> rq.pdf_file_names,
     pdf_bytes_list |-> rq.pdf_bytes_list,
     p_lang_list |-> actual_lang_list,
     backend |-> rq.backend,
     parse_method |-> rq.parse_method,
     formula_enable |-> rq.formula_enable,
     table_enable |-> rq.table_enable,
     server_url |-> rq.server_url,
     f_draw_layout_bbox |-> FALSE,
     f_draw_span_bbox |-> FALSE,
     f_dump_md |-> "return_md" \in rq.flags,
     f_dump_middle_json |-> "return_middle_json" \in rq.flags,
     f_dump_model_output |-> "return_model_output" \in rq.flags,
     f_dump_orig_pdf |-> FALSE,
     f_dump_content_list |-> "return_content_list" \in rq.flags,
     start_page_id |-> rq.start_page_id,
     end_page_id |-> rq.end_page_id]

\* line 168: a call that names a keyword and also receives it through **config
\* raises TypeError before the callee runs
KwargsCollide(kwargs, cfg) == (DOMAIN kwargs) \cap (DOMAIN cfg) # {}

\* line 168: what the callee receives when the call goes through
MergedKwargs(kwargs, cfg) == kwargs @@ cfg

\* lines 177-180
ParseDir(unique_dir, pdf_name, backend, parse_method) ==
    IF StartsWith(backend, Pipeline)
    THEN Join(Join(unique_dir, pdf_name), parse_method)
    ELSE Join(Join(unique_dir, pdf_name), Vlm)

\* ModelOutputSuffix gone wrong: the second call site tests the backend for
\* equality where the first tests a prefix
ModelOutputSuffixExact(backend) ==
    IF backend = Pipeline THEN ModelJsonSuffix ELSE ModelOutputTxtSuffix

\* lines 188-191
ModelOutputSuffix(backend) ==
    IF StartsWith(backend, Pipeline) THEN ModelJsonSuffix ELSE ModelOutputTxtSuffix

\* line 64
ResultFilePath(file_suffix_identifier, pdf_name, parse_dir) ==
    Join(parse_dir, pdf_name \o file_suffix_identifier)

\* lines 62-68.  No directory of the model bears the name of a result file, so
\* the existence test is a test for the file.
get_infer_result(files, file_suffix_identifier, pdf_name, parse_dir) ==
    LET result_file_path == ResultFilePath(file_suffix_identifier, pdf_name, parse_dir)
    IN IF Resolve(result_file_path) \in DOMAIN files
       THEN files[Resolve(result_file_path)]
       ELSE NoneValue

\* line 195: glob(f"{parse_dir}/images/*.jpg"); "*" matches no leading dot
GlobImages(files, parse_dir) ==
    LET images == Resolve(Join(parse_dir, ImagesDir))
    IN {p \in DOMAIN files :
          /\ Len(p) = Len(images) + 1
          /\ SubSeq(p, 1, Len(images)) = images
          /\ Len(p[Len(p)]) > Len(JpgSuffix)
          /\ p[Len(p)][1] # "."
          /\ SubSeq(p[Len(p)], Len(p[Len(p)]) - Len(JpgSuffix) + 1, Len(p[Len(p)]))
                = JpgSuffix}

\* lines 56-59 and 199
EncodeImage(files, image_path) ==
    [scheme |-> "data:image/jpeg;base64,", b64 |-> files[image_path]]

\* lines 196-201: basename -> data URI
ImagesDict(files, parse_dir) ==
    LET image_paths == GlobImages(files, parse_dir)
    IN [b \in {p[Len(p)] : p \in image_paths} |->
          EncodeImage(files, CHOOSE p \in image_paths : p[Len(p)] = b)]

ResultKey(flag) ==
    CASE flag = "return_md" -> "md_content"
      [] flag = "return_middle_json" -> "middle_json"
      [] flag = "return_model_output" -> "model_output"
      [] flag = "return_content_list" -> "content_list"
      [] flag = "return_images" -> "images"

\* SubtreeData gone wrong: a kind whose file is missing gets no key
SubtreeDataOmitMissing(files, flags, backend, pdf_name, parse_dir) ==
    LET SuffixOf(k) ==
            CASE k = "md_content" -> MdSuffix
              [] k = "middle_json" -> MiddleJsonSuffix
              [] k = "model_output" -> ModelOutputSuffix(backend)
              [] k = "content_list" -> ContentListSuffix
    IN [k \in {ResultKey(f) : f \in
                 {g \in flags :
                    \/ g = "return_images"
                    \/ Resolve(ResultFilePath(SuffixOf(ResultKey(g)), pdf_name, parse_dir))
                          \in DOMAIN files}} |->
          IF k = "images" THEN ImagesDict(files, parse_dir)
          ELSE get_infer_result(files, SuffixOf(k), pdf_name, parse_dir)]

\* lines 183-201: the entries of one stem whose subtree exists
SubtreeData(files, flags, backend, pdf_name, parse_dir) ==
    [k \in {ResultKey(f) : f \in flags} |->
        CASE k = "md_content" ->
                get_infer_result(files, MdSuffix, pdf_name, parse_dir)
          [] k = "middle_json" ->
                get_infer_result(files, MiddleJsonSuffix, pdf_name, parse_dir)
          [] k = "model_output" ->
                get_infer_result(files, ModelOutputSuffix(backend), pdf_name, parse_dir)
          [] k = "content_list" ->
                get_infer_result(files, ContentListSuffix, pdf_name, parse_dir)
          [] k = "images" -> ImagesDict(files, parse_dir)]

\* lines 174-201: the bundle of one stem
DataFor(dirs, files, rq, pdf_name) ==
    LET parse_dir == ParseDir(rq.unique_dir, pdf_name, rq.backend, rq.parse_method)
    IN IF PathExists(dirs, files, parse_dir)
       THEN SubtreeData(files, rq.flags, rq.backend, pdf_name, parse_dir)
       ELSE EmptyDict

\* result_dict[k] = v on a dict kept in insertion order
DictSet(d, k, v) ==
    IF \E i \in 1..Len(d) : d[i].key = k
    THEN [i \in 1..Len(d) |-> IF d[i].key = k THEN [key |-> k, data |-> v] ELSE d[i]]
    ELSE Append(d, [key |-> k, data |-> v])

DictGet(d, k) == d[CHOOSE i \in 1..Len(d) : d[i].key = k].data

\* lines 172-201: result_dict after the first n names of pdf_file_names
RECURSIVE CollectResults(_, _, _, _)
CollectResults(dirs, files, rq, n) ==
    IF n = 0 THEN <<>>
    ELSE DictSet(CollectResults(dirs, files, rq, n - 1),
                 rq.pdf_file_names[n],
                 DataFor(dirs, files, rq, rq.pdf_file_names[n]))

\* the paths lines 177-201 test, open or glob for one stem
ProbedFor(dirs, files, rq, pdf_name) ==
    LET parse_dir == ParseDir(rq.unique_dir, pdf_name, rq.backend, rq.parse_method)
        SuffixOf(f) ==
            CASE f = "return_md" -> MdSuffix
              [] f = "return_middle_json" -> MiddleJsonSuffix
              [] f = "return_model_output" -> ModelOutputSuffix(rq.backend)
              [] f = "return_content_list" -> ContentListSuffix
              [] f = "return_images" -> <<>>
    IN IF PathExists(dirs, files, parse_dir)
       THEN {parse_dir}
            \cup {ResultFilePath(SuffixOf(f), pdf_name, parse_dir) :
                     f \in rq.flags \ {"return_images"}}
            \cup (IF "return_images" \in rq.flags
                  THEN {Join(parse_dir, ImagesDir)} ELSE {})
       ELSE {parse_dir}

Probed(dirs, files, rq) ==
    UNION {ProbedFor(dirs, files, rq, rq.pdf_file_names[k]) :
              k \in 1..Len(rq.pdf_file_names)}

(************************ the engine, aio_do_parse *************************)
\* The engine fills {output_dir}/{stem}/{subdirectory} with artifacts.  Which
\* subdirectory it picks and which artifacts it leaves are its own business:
\* a shape names them, and each stem of the batch gets a shape.
EngineKinds == {"md", "middle", "model_json", "model_txt", "content_list", "image"}

EngineSuffix(kind) ==
    CASE kind = "md" -> MdSuffix
      [] kind = "middle" -> MiddleJsonSuffix
      [] kind = "model_json" -> ModelJsonSuffix
      [] kind = "model_txt" -> ModelOutputTxtSuffix
      [] kind = "content_list" -> ContentListSuffix

JpgName == <<"0",".","j","p","g">>
PngName == <<"0",".","p","n","g">>

ReqTag(r) == <<"r1", "r2", "r3", "r4">>[r]

EngineDir(out_dir, stem, parse_method, shape) ==
    Join(Join(out_dir, stem), IF shape.subtree = "method" THEN parse_method ELSE Vlm)

EnginePaths(out_dir, stem, parse_method, shape) ==
    LET dir == EngineDir(out_dir, stem, parse_method, shape)
    IN {Resolve(Join(dir, stem \o EngineSuffix(k))) : k \in shape.files \ {"image"}}
       \cup (IF "image" \in shape.files
             THEN {Resolve(Join(Join(dir, ImagesDir), JpgName)),
                   Resolve(Join(Join(dir, ImagesDir), PngName))}
             ELSE {})

\* the file system after the engine has written one stem's output
EngineWriteStem(fs, r, out_dir, stem, parse_method, shape) ==
    IF shape.subtree = "none" THEN fs
    ELSE LET dir == EngineDir(out_dir, stem, parse_method, shape)
             paths == EnginePaths(out_dir, stem, parse_method, shape)
         IN [dirs |-> IF "image" \in shape.files
                      THEN MakeDirs(fs.dirs, Join(dir, ImagesDir))
                      ELSE MakeDirs(fs.dirs, dir),
             files |-> [p \in (DOMAIN fs.files) \cup paths |->
                          IF p \in paths
                          THEN [data |-> ReqTag(r), corrupt |-> FALSE, origin |-> p]
                          ELSE fs.files[p]]]

\* the file system after the engine has written the first n stems of the batch
RECURSIVE EngineWriteAll(_, _, _, _, _)
EngineWriteAll(fs, r, kwargs, shapes, n) ==
    IF n = 0 THEN fs
    ELSE EngineWriteStem(EngineWriteAll(fs, r, kwargs, shapes, n - 1), r,
                         kwargs.output_dir, kwargs.pdf_file_names[n],
                         kwargs.parse_method, shapes[n])

(******************************** requests *********************************)
EmptyConfig == [k \in {} |-> FALSE]

IdleReq ==
    [pc |-> "idle", files |-> <<>>, output_dir |-> <<>>, lang_list |-> <<>>,
     backend |-> <<>>, parse_method |-> <<>>, flags |-> {},
     formula_enable |-> TRUE, table_enable |-> TRUE, server_url |-> "None",
     start_page_id |-> 0, end_page_id |-> 99999,
     i |-> 0, ws_id |-> <<>>, unique_dir |-> <<>>,
     pdf_file_names |-> <<>>, pdf_bytes_list |-> <<>>, actual_lang_list |-> <<>>,
     engineCalls |-> 0, engineReturned |-> FALSE, engineArgs |-> EmptyConfig,
     response |-> NoResponse,
     created |-> {}, written |-> {}, removed |-> {}, probed |-> {},
     soloDirs |-> {}, soloFiles |-> NoFiles]

\* a request as the framework hands it to parse_pdf (lines 72-88)
Request(files, output_dir, lang_list, backend, parse_method, flags) ==
    [IdleReq EXCEPT !.files = files, !.output_dir = output_dir,
                    !.lang_list = lang_list, !.backend = backend,
                    !.parse_method = parse_method, !.flags = flags]

\* lines 143-169 and, for a call that cannot be made, 210-220: the request
\* after the upload loop; n is the number of uuids drawn so far
AfterLoop(rq, n) ==
    LET actual_lang_list == ReconcileLang(rq.lang_list, Len(rq.pdf_file_names))
        kwargs == HandlerKwargs(rq, actual_lang_list)
    IN IF KwargsCollide(kwargs, config)
       THEN [rq EXCEPT !.pc = "done", !.actual_lang_list = actual_lang_list,
                       !.response = ServerErrorResponse(TypeErrorText, n)]
       ELSE [rq EXCEPT !.pc = "engine", !.actual_lang_list = actual_lang_list,
                       !.engineCalls = @ + 1,
                       !.engineArgs = MergedKwargs(kwargs, config)]

UuidsAfterLoop(rq, n) ==
    IF KwargsCollide(HandlerKwargs(rq, rq.lang_list), config) THEN n + 1 ELSE n

\* lines 91-117: a request arrives; the workspace is created before any file
\* is looked at; the handler then awaits the first upload's bytes
Receive(r, Inputs) ==
    /\ req[r].pc = "idle"
    /\ \E inp \in Inputs :
         LET unique_dir == UniqueDir(inp.output_dir, uuidNext)
             rq == [inp EXCEPT !.pc = "read", !.i = 1,
                               !.ws_id = Uuid4(uuidNext),
                               !.unique_dir = unique_dir,
                               !.created = {unique_dir},
                               !.soloDirs = MakeDirs({}, unique_dir)]
         IN /\ fsDirs' = MakeDirs(fsDirs, unique_dir)
            /\ IF inp.files = <<>>
               THEN /\ req' = [req EXCEPT ![r] = AfterLoop(rq, uuidNext + 1)]
                    /\ uuidNext' = UuidsAfterLoop(rq, uuidNext + 1)
               ELSE /\ req' = [req EXCEPT ![r] = rq]
                    /\ uuidNext' = uuidNext + 1
    /\ UNCHANGED <<config, fsFiles>>

\* lines 117-141, then 116 again or 143-169: the bytes of upload i are in;
\* validate, stage, decode, and go on to the next upload or to the engine
ProcessFile(r) ==
    LET rq == req[r]
        file == rq.files[rq.i]
        temp_path == TempPath(rq.unique_dir, file.filename)
        staged == WriteFile(fsFiles, temp_path, file.content)
        soloStaged == WriteFile(rq.soloFiles, temp_path, file.content)
    IN /\ rq.pc = "read"
       /\ IF ~IsSupported(file.filename)
          THEN /\ req' = [req EXCEPT ![r] =
                     [rq EXCEPT !.pc = "done",
                                !.response = UnsupportedResponse(file.filename)]]
               /\ UNCHANGED <<fsFiles, uuidNext>>
          ELSE IF ReadFnRaises(staged, temp_path)
          THEN /\ fsFiles' = FilesAfterDecodeError(staged, temp_path)
               /\ req' = [req EXCEPT ![r] =
                     [rq EXCEPT !.pc = "done",
                                !.written = @ \cup {temp_path},
                                !.soloFiles = FilesAfterDecodeError(soloStaged, temp_path),
                                !.response = DecodeFailedResponse(DecodeErrorText)]]
               /\ UNCHANGED uuidNext
          ELSE LET next ==
                     [rq EXCEPT !.written = @ \cup {temp_path},
                                !.removed = @ \cup {temp_path},
                                !.soloFiles = FilesAfterDecodeOk(soloStaged, temp_path),
                                !.pdf_bytes_list = Append(@, ReadFn(staged, temp_path)),
                                !.pdf_file_names = Append(@, PathStem(file.filename)),
                                !.i = @ + 1]
               IN /\ fsFiles' = FilesAfterDecodeOk(staged, temp_path)
                  /\ IF rq.i < Len(rq.files)
                     THEN /\ req' = [req EXCEPT ![r] = next]
                          /\ UNCHANGED uuidNext
                     ELSE /\ req' = [req EXCEPT ![r] = AfterLoop(next, uuidNext)]
                          /\ uuidNext' = UuidsAfterLoop(next, uuidNext)
       /\ UNCHANGED <<config, fsDirs>>

\* the engine runs: it leaves output for each stem of its batch
EngineWrite(r, Shapes) ==
    LET rq == req[r]
        n == Len(rq.engineArgs.pdf_file_names)
    IN /\ rq.pc = "engine"
       /\ \E shapes \in [1..n -> Shapes] :
            LET fs == EngineWriteAll([dirs |-> fsDirs, files |-> fsFiles], r,
                                     rq.engineArgs, shapes, n)
                solo == EngineWriteAll([dirs |-> rq.soloDirs, files |-> rq.soloFiles],
                                       r, rq.engineArgs, shapes, n)
            IN /\ fsDirs' = fs.dirs
               /\ fsFiles' = fs.files
               /\ req' = [req EXCEPT ![r] =
                     [rq EXCEPT !.pc = "collect", !.engineReturned = TRUE,
                                !.soloDirs = solo.dirs,
                                !.soloFiles = solo.files]]
       /\ UNCHANGED <<config, uuidNext>>

\* line 149 raises, lines 210-220 answer
EngineRaise(r) ==
    /\ req[r].pc = "engine"
    /\ req' = [req EXCEPT ![r] =
          [@ EXCEPT !.pc = "done",
                    !.response = ServerErrorResponse(EngineErrorText, uuidNext)]]
    /\ uuidNext' = uuidNext + 1
    /\ UNCHANGED <<config, fsDirs, fsFiles>>

\* lines 171-209: the engine has returned; collect and answer
Collect(r) ==
    LET rq == req[r]
    IN /\ rq.pc = "collect"
       /\ req' = [req EXCEPT ![r] =
             [rq EXCEPT !.pc = "done",
                        !.probed = Probed(fsDirs, fsFiles, rq),
                        !.response = SuccessResponse(rq.backend,
                            CollectResults(fsDirs, fsFiles, rq, Len(rq.pdf_file_names)))]]
       /\ UNCHANGED <<config, uuidNext, fsDirs, fsFiles>>

(***************************** inputs and specs ****************************)
SeqsUpTo(S, n) == UNION {[1..k -> S] : k \in 0..n}

RECURSIVE SubsequencesOf(_)
SubsequencesOf(s) ==
    IF s = <<>> THEN {<<>>}
    ELSE LET rest == SubsequencesOf(Tail(s))
         IN rest \cup {<<Head(s)>> \o t : t \in rest}

Upload(filename, data, corrupt) ==
    [filename |-> filename, content |-> Bytes(data, corrupt)]

A_pdf == <<"a",".","p","d","f">>
A_png == <<"a",".","p","n","g">>
B_PDF == <<"b",".","P","D","F">>
B_pdf == <<"b",".","p","d","f">>
C_Tiff == <<"c",".","T","i","f","f">>
Readme == <<"R","E","A","D","M","E">>
Sub_a_pdf == <<"x","/","a",".","p","d","f">>
Dots_pdf == <<".",".",".","p","d","f">>

OutDir == <<<<"o","u","t">>>>
Auto == <<"a","u","t","o">>
Ocr == <<"o","c","r">>
Pipeline2 == <<"p","i","p","e","l","i","n","e","2">>
Pipe == <<"p","i","p","e">>
VlmClient == <<"v","l","m","-","c">>

\* what main may have stored in app.state.config (lines 228-233): nothing,
\* an option parse_pdf does not pass itself, an option it does
Configs ==
    {EmptyConfig, [device |-> "cuda"], [device |-> "cuda", backend |-> VlmClient]}

Langs == {"en", "fr"}

\* requests that exercise intake, staging, language lists and dispatch
IntakeUploads ==
    {Upload(A_pdf, "d1", FALSE), Upload(A_pdf, "d2", TRUE),
     Upload(A_png, "d3", FALSE), Upload(B_PDF, "d4", FALSE),
     Upload(C_Tiff, "d5", FALSE), Upload(Readme, "d6", FALSE)}

IntakeInputs ==
    {Request(fl, OutDir, ll, Pipeline, Auto, {"return_md"}) :
        fl \in SeqsUpTo(IntakeUploads, MaxFiles), ll \in SeqsUpTo(Langs, MaxLangs)}

IntakeShapes == {[subtree |-> "none", files |-> {}], [subtree |-> "method", files |-> {"md"}]}

\* requests that exercise result collection
CollectFiles ==
    {fl \in SubsequencesOf(<<Upload(A_pdf, "d1", FALSE), Upload(A_png, "d3", FALSE),
                             Upload(B_pdf, "d4", FALSE)>>) : Len(fl) <= MaxFiles}

CollectFlags ==
    {{}, {"return_md"}, {"return_model_output", "return_images"}, ReturnFlags}

CollectInputs ==
    {Request(fl, OutDir, <<"ch">>, b, pm, fs) :
        fl \in CollectFiles, b \in {Pipeline, Pipeline2, Pipe, VlmClient},
        pm \in {Auto, Ocr}, fs \in CollectFlags}

CollectShapes ==
    {[subtree |-> "none", files |-> {}]}
    \cup {[subtree |-> d, files |-> f] :
            d \in {"method", "vlm"},
            f \in {{}, EngineKinds, {"md"}, EngineKinds \ {"md"}}}

\* requests that run side by side
ConcInputs ==
    {Request(<<Upload(f, "d1", FALSE)>>, OutDir, <<"ch">>, b, Auto, {"return_md"}) :
        f \in {A_pdf, Sub_a_pdf, Dots_pdf}, b \in {Pipeline, VlmClient}}

ConcShapes ==
    {[subtree |-> "none", files |-> {}], [subtree |-> "method", files |-> {"md"}],
     [subtree |-> "vlm", files |-> {"md"}]}

InitWith(Cfgs, Rs) ==
    /\ config \in Cfgs
    /\ uuidNext = 0
    /\ fsDirs = {}
    /\ fsFiles = NoFiles
    /\ req = [r \in Rs |-> IdleReq]

SoloReqs == {1}
ConcReqs == 1..MaxReqs

\* one request at a time: intake, staging, language lists, dispatch
Init == InitWith(Configs, SoloReqs)
Next ==
    \E r \in SoloReqs :
        \/ Receive(r, IntakeInputs)
        \/ ProcessFile(r)
        \/ EngineWrite(r, IntakeShapes)
        \/ EngineRaise(r)
        \/ Collect(r)
Spec == Init /\ [][Next]_vars

\* one request at a time: result collection
InitCollect == InitWith({EmptyConfig, [device |-> "cuda"]}, SoloReqs)
NextCollect ==
    \E r \in SoloReqs :
        \/ Receive(r, CollectInputs)
        \/ ProcessFile(r)
        \/ EngineWrite(r, CollectShapes)
        \/ EngineRaise(r)
        \/ Collect(r)
SpecCollect == InitCollect /\ [][NextCollect]_vars

\* several requests interleaved at the handler's await points
InitConc == InitWith({EmptyConfig}, ConcReqs)
NextConc ==
    \E r \in ConcReqs :
        \/ Receive(r, ConcInputs)
        \/ ProcessFile(r)
        \/ EngineWrite(r, ConcShapes)
        \/ EngineRaise(r)
        \/ Collect(r)
SpecConc == InitConc /\ [][NextConc]_vars

(************************* vocabulary of the claims ************************)
Done(r) == req[r].pc = "done"

Status(r) == req[r].response.status

\* an upload whose extension, lower-cased, is no accepted extension
ExtOutside(file) ==
    \A sfx \in pdf_suffixes \cup image_suffixes : Lower(PathSuffix(file.filename)) # sfx

\* an upload read_fn cannot decode
Undecodable(file) == file.content.corrupt

Invalid(file) == ExtOutside(file) \/ Undecodable(file)

AllValid(r) == \A k \in 1..Len(req[r].files) : ~Invalid(req[r].files[k])

FirstInvalid(r) ==
    CHOOSE k \in 1..Len(req[r].files) :
        /\ Invalid(req[r].files[k])
        /\ \A j \in 1..(k - 1) : ~Invalid(req[r].files[j])

RejectedForExtension(r) ==
    /\ Done(r)
    /\ Status(r) = 400
    /\ req[r].response.content.error.msg = "Unsupported file type: "

(********************************** C1 *************************************)
\* C1: a request with an upload, at any position, whose extension is not
\* accepted or whose bytes do not decode never reaches the engine, and is
\* answered 400 with the offending extension (or the decode failure) and
\* without a request_id.
C1_InvalidUploadRejected ==
    \A r \in DOMAIN req :
        (req[r].pc # "idle" /\ ~AllValid(r)) =>
            /\ req[r].engineCalls = 0
            /\ req[r].pc \in {"read", "done"}
            /\ Done(r) =>
                 /\ Status(r) = 400
                 /\ DOMAIN req[r].response.content = {"error"}
                 /\ LET bad == req[r].files[FirstInvalid(r)]
                    IN req[r].response.content.error =
                         IF ExtOutside(bad)
                         THEN [msg |-> "Unsupported file type: ",
                               arg |-> PathSuffix(bad.filename)]
                         ELSE [msg |-> "Failed to load file: ", arg |-> DecodeErrorText]

C1_Witness ==
    \E r \in DOMAIN req :
        /\ Done(r)
        /\ Len(req[r].files) = 2
        /\ ~Invalid(req[r].files[1])
        /\ ExtOutside(req[r].files[2])
        /\ Status(r) = 400
        /\ req[r].response.content.error.arg = <<".", "T", "i", "f", "f">>

(********************************** C2 *************************************)
\* C2: the language list handed to the engine is the supplied list when its
\* length is the number of accepted files, and otherwise that many copies of
\* its first entry ("ch" when it is empty); it is as long as the lists of
\* stems and of payloads.
C2_LangListReconciled ==
    \A r \in DOMAIN req :
        req[r].engineCalls > 0 =>
            LET N == Len(req[r].pdf_file_names)
                M == Len(req[r].lang_list)
                passed == req[r].engineArgs.p_lang_list
            IN /\ N = Len(req[r].files)
               /\ Len(passed) = N
               /\ Len(req[r].engineArgs.pdf_file_names) = N
               /\ Len(req[r].engineArgs.pdf_bytes_list) = N
               /\ M = N => \A k \in 1..N : passed[k] = req[r].lang_list[k]
               /\ M # N => \A k \in 1..N :
                     passed[k] = IF M > 0 THEN req[r].lang_list[1] ELSE "ch"

C2_Witness ==
    \E r \in DOMAIN req :
        /\ req[r].engineCalls > 0
        /\ Len(req[r].pdf_file_names) = 2
        /\ req[r].lang_list = <<"fr">>
        /\ req[r].engineArgs.p_lang_list = <<"fr", "fr">>

(********************************** C4 *************************************)
\* C4: when a request has its response, no temporary file it staged in its
\* workspace is still on disk.
C4_StagedFilesCleaned ==
    \A r \in DOMAIN req :
        Done(r) => \A p \in req[r].written : Resolve(p) \notin DOMAIN fsFiles

(********************************** C5 *************************************)
\* C5: a request whose uploads are all accepted and decoded invokes the
\* engine exactly once, with the whole batch; when that invocation raises,
\* the answer is 500 without results and with a request_id that is not the
\* identifier of the workspace directory.
C5_EngineInvokedOnce ==
    \A r \in DOMAIN req :
        (Done(r) /\ req[r].files # <<>> /\ AllValid(r)) =>
            /\ req[r].engineCalls = 1
            /\ Len(req[r].engineArgs.pdf_file_names) = Len(req[r].files)
            /\ Status(r) \in {200, 500}
            /\ Status(r) = 500 =>
                 /\ DOMAIN req[r].response.content = {"error", "request_id"}
                 /\ req[r].response.content.request_id # req[r].ws_id

(********************************** C7 *************************************)
\* C7 as stated: a request rejected for an unsupported extension leaves the
\* file system as it found it (here: empty) and has written no upload.
C7_RejectionLeavesNoTrace ==
    \A r \in DOMAIN req :
        RejectedForExtension(r) =>
            /\ fsDirs = {}
            /\ fsFiles = NoFiles
            /\ req[r].created = {}
            /\ req[r].written = {}

\* C7 as amended: at a rejection for an unsupported extension the workspace
\* directory exists and is empty; exactly the uploads before the offending
\* one were staged, decoded and removed again; the offending upload and
\* those after it were not written; the engine was not invoked.
C7_RejectionLeavesEmptyWorkspace ==
    \A r \in DOMAIN req :
        RejectedForExtension(r) =>
            LET k == FirstInvalid(r)
                ws == Join(req[r].output_dir, req[r].ws_id)
                before == {Join(ws, PathName(req[r].files[j].filename)) : j \in 1..(k - 1)}
            IN /\ ExtOutside(req[r].files[k])
               /\ req[r].created = {ws}
               /\ fsDirs = {req[r].output_dir, ws}
               /\ fsFiles = NoFiles
               /\ req[r].written = before
               /\ req[r].removed = before
               /\ Len(req[r].pdf_bytes_list) = k - 1
               /\ req[r].engineCalls = 0

C7_Witness ==
    \E r \in DOMAIN req :
        /\ RejectedForExtension(r)
        /\ FirstInvalid(r) = 2
        /\ req[r].written # {}
        /\ req[r].unique_dir \in fsDirs

(********************************** C8 *************************************)
\* C8: an option that main stored in app.state.config and that parse_pdf
\* also derives from the request reaches the engine with the request's
\* value, the request being processed as usual; options only the
\* configuration has are passed through.
C8_RequestOverridesConfig ==
    \A r \in DOMAIN req :
        (Done(r) /\ req[r].files # <<>> /\ AllValid(r)) =>
            /\ req[r].engineCalls = 1
            /\ \A k \in DOMAIN config \ DOMAIN HandlerKwargs(req[r], req[r].actual_lang_list) :
                   req[r].engineArgs[k] = config[k]
            /\ req[r].engineArgs.backend = req[r].backend
            /\ req[r].engineArgs.parse_method = req[r].parse_method
            /\ req[r].engineArgs.f_dump_md = ("return_md" \in req[r].flags)

(*********************** vocabulary of the collector ***********************)
Results(r) == req[r].response.content.results

\* the subtree the collector is to read for a stem of request r
FamilyDir(r, stem) ==
    LET ws == Join(req[r].output_dir, req[r].ws_id)
    IN IF StartsWith(req[r].backend, Pipeline)
       THEN <<ws[1], ws[2], stem, req[r].parse_method>>
       ELSE <<ws[1], ws[2], stem, Vlm>>

\* the suffix of the raw model output for the backend family of request r
FamilyModelSuffix(r) ==
    IF StartsWith(req[r].backend, Pipeline)
    THEN <<"_","m","o","d","e","l",".","j","s","o","n">>
    ELSE <<"_","m","o","d","e","l","_","o","u","t","p","u","t",".","t","x","t">>

\* the file that holds a text artifact of a stem
ArtifactFile(r, stem, flag) ==
    Append(FamilyDir(r, stem),
           stem \o (CASE flag = "return_md" -> MdSuffix
                      [] flag = "return_middle_json" -> MiddleJsonSuffix
                      [] flag = "return_model_output" -> FamilyModelSuffix(r)
                      [] flag = "return_content_list" -> ContentListSuffix))

OnDisk(path) == Resolve(path) \in fsDirs \/ Resolve(path) \in DOMAIN fsFiles

TextFlags == ReturnFlags \ {"return_images"}

\* the *.jpg files in the images directory of a stem's subtree
JpgsOnDisk(r, stem) ==
    {p \in DOMAIN fsFiles :
        /\ Len(p) = Len(FamilyDir(r, stem)) + 2
        /\ SubSeq(p, 1, Len(p) - 1) = Append(FamilyDir(r, stem), ImagesDir)
        /\ Len(p[Len(p)]) > 4
        /\ p[Len(p)][1] # "."
        /\ SubSeq(p[Len(p)], Len(p[Len(p)]) - 3, Len(p[Len(p)])) = <<".","j","p","g">>}

Answered200(r) == Done(r) /\ Status(r) = 200

C6_BackendFamilyBranching ==
    \A r \in DOMAIN req :
        Answered200(r) =>
            /\ \A p \in req[r].probed :
                 \E k \in 1..Len(req[r].pdf_file_names) :
                    LET dir == FamilyDir(r, req[r].pdf_file_names[k])
                    IN p = dir \/ (Len(p) = Len(dir) + 1 /\ SubSeq(p, 1, Len(dir)) = dir)
            /\ \A k \in 1..Len(req[r].pdf_file_names) :
                 LET stem == req[r].pdf_file_names[k]
                     dir == FamilyDir(r, stem)
                     model == Append(dir, stem \o FamilyModelSuffix(r))
                     data == DictGet(Results(r), stem)
                 IN /\ dir \in req[r].probed
                    /\ (OnDisk(dir) /\ "return_model_output" \in req[r].flags) =>
                         /\ model \in req[r].probed
                         /\ \A q \in req[r].probed :
                               (q = Append(dir, stem \o ModelJsonSuffix)
                                \/ q = Append(dir, stem \o ModelOutputTxtSuffix))
                               => q = model
                         /\ OnDisk(model) => data["model_output"] = fsFiles[model]
                         /\ ~OnDisk(model) => data["model_output"] = NoneValue
                    /\ (OnDisk(dir) /\ "return_md" \in req[r].flags
                           /\ OnDisk(Append(dir, stem \o MdSuffix))) =>
                         data["md_content"] = fsFiles[Append(dir, stem \o MdSuffix)]
                    /\ ~OnDisk(dir) => DOMAIN data = {}

C6_Witness ==
    \E r \in DOMAIN req :
        /\ Answered200(r)
        /\ req[r].backend = Pipeline2
        /\ req[r].parse_method = Ocr
        /\ "return_model_output" \in req[r].flags
        /\ \E k \in 1..Len(req[r].pdf_file_names) :
             LET stem == req[r].pdf_file_names[k]
                 model == <<req[r].output_dir[1], req[r].ws_id, stem, Ocr,
                            stem \o ModelJsonSuffix>>
             IN /\ model \in DOMAIN fsFiles
                /\ DictGet(Results(r), stem)["model_output"] = fsFiles[model]

(********************************** C9 *************************************)
\* C9: a 200 answer has one entry per uploaded file, keyed by the file's
\* stem, in upload order.
C9_OneBundlePerFile ==
    \A r \in DOMAIN req :
        Answered200(r) =>
            /\ Len(Results(r)) = Len(req[r].files)
            /\ \A k \in 1..Len(req[r].files) :
                 Results(r)[k].key = PathStem(req[r].files[k].filename)

(********************************** C10 ************************************)
InFlight(r) == req[r].pc \notin {"idle", "done"}

\* the paths request r has created, written, deleted or read
Touched(r) == req[r].created \cup req[r].written \cup req[r].removed \cup req[r].probed

\* the answer request r gives when no other request shares the file system
AnswerAlone(r) ==
    SuccessResponse(req[r].backend,
        CollectResults(req[r].soloDirs, req[r].soloFiles, req[r],
                       Len(req[r].pdf_file_names)))

\* C10: however concurrent requests interleave, every path a request
\* creates, writes, reads or deletes lies in its own workspace directory, no
\* two requests in flight have the same workspace, and each 200 answer is
\* the answer the request gives when it runs alone.
C10_WorkspaceIsolation ==
    \A r \in DOMAIN req :
        /\ req[r].pc # "idle" => \A p \in Touched(r) : Inside(req[r].unique_dir, p)
        /\ \A q \in DOMAIN req :
              (q # r /\ InFlight(q) /\ InFlight(r)) => req[q].unique_dir # req[r].unique_dir
        /\ Answered200(r) => req[r].response = AnswerAlone(r)

\* The part of C10 that holds: a request none of whose stems is "." or ".."
\* (and whose parse_method is a plain name, as all are here) is isolated.
PlainStems(r) ==
    \A k \in 1..Len(req[r].files) :
        PathStem(req[r].files[k].filename) \notin {DotComp, DotDotComp}

IsolationOfPlainStems ==
    \A r \in DOMAIN req :
        PlainStems(r) =>
            /\ req[r].pc # "idle" => \A p \in Touched(r) : Inside(req[r].unique_dir, p)
            /\ \A q \in DOMAIN req :
                  (q # r /\ InFlight(q) /\ InFlight(r)) => req[q].unique_dir # req[r].unique_dir
            /\ Answered200(r) => req[r].response = AnswerAlone(r)

=============================================================================
